---- MODULE Spec2Model ----
(***************************************************************************)
(* The Todo service of src/todo_service.py behind the HTTP handlers of     *)
(* src/app.py, with the request schemas of src/models.py.                  *)
(*                                                                         *)
(* Python values are modelled as follows.                                  *)
(*   str            a sequence of one-character strings                    *)
(*   Optional[T]    None is <<>>, a present value v is <<v>>               *)
(*   datetime       a natural number read from the variable clock          *)
(*   dict           a sequence of entries in insertion order               *)
(* A field of a Todo whose annotation is not Optional (title, status,      *)
(* priority) is still stored as an Optional here: the Todo model does not  *)
(* validate on assignment, so setattr can store None in it.                *)
(***************************************************************************)
EXTENDS Integers, Sequences, FiniteSets, TLC

VARIABLES
    todos,      \* TodoService._todos: entries [key, todo] in insertion order
    next_id,    \* TodoService._next_id
    clock,      \* the value datetime.now() returns at this moment
    resp,       \* the response of the last request handled
    created,    \* history: the ids returned by the create calls, in order
    deleted,    \* history: the ids for which delete_todo returned True
    n_updates,  \* history: the number of PUT requests that found their todo
    prev,       \* history: the store and the counter before the last step
    heap,       \* the Todo objects of the interleaved calls, by address
    threads     \* the call each worker thread is in, and its local variables

vars == <<todos, next_id, clock, resp, created, deleted, n_updates, prev,
          heap, threads>>

----------------------------------------------------------------------------
(* Bounds of the model *)

MaxCreates == 2     \* create requests accepted in one run
MaxTime == 1        \* the clock runs over 0..MaxTime
MaxUpdates == 1     \* PUT requests applied to a stored todo in one run
MaxThreads == 2     \* worker threads that run handlers at the same time
MaxCalls == 2       \* service calls one worker thread makes in one run

----------------------------------------------------------------------------
(* Python values *)

None == <<>>
Some(v) == <<v>>
IsNone(o) == o = <<>>
Val(o) == o[1]

----------------------------------------------------------------------------
(* src/models.py *)

TodoStatus == {"pending", "in_progress", "completed"}
TodoPriority == {"low", "medium", "high"}

TitleMinLength == 1
TitleMaxLength == 200
DescriptionMaxLength == 1000

UpdateFields == {"title", "description", "status", "priority"}

\* TodoCreate(**body): the body holds the keys in body.fields_set; a key's
\* value is None for JSON null. TRUE iff pydantic accepts the body.
TodoCreateValid(body) ==
    /\ "title" \in body.fields_set
    /\ ~IsNone(body.title)
    /\ Len(Val(body.title)) >= TitleMinLength
    /\ Len(Val(body.title)) <= TitleMaxLength
    /\ ("description" \in body.fields_set /\ ~IsNone(body.description))
          => Len(Val(body.description)) <= DescriptionMaxLength
    /\ "priority" \in body.fields_set
          => (~IsNone(body.priority) /\ Val(body.priority) \in TodoPriority)

\* The TodoCreate object of an accepted body: fields that are not set take
\* their defaults (description None, priority "medium").
TodoCreate(body) ==
    [title |-> Val(body.title),
     description |-> IF "description" \in body.fields_set
                     THEN body.description ELSE None,
     priority |-> IF "priority" \in body.fields_set
                  THEN Val(body.priority) ELSE "medium"]

\* TodoUpdate(**body): every field is Optional, so None passes; the length
\* and Literal constraints apply to a value that is present.
TodoUpdateValid(body) ==
    /\ ("title" \in body.fields_set /\ ~IsNone(body.title))
          => /\ Len(Val(body.title)) >= TitleMinLength
             /\ Len(Val(body.title)) <= TitleMaxLength
    /\ ("description" \in body.fields_set /\ ~IsNone(body.description))
          => Len(Val(body.description)) <= DescriptionMaxLength
    /\ ("status" \in body.fields_set /\ ~IsNone(body.status))
          => Val(body.status) \in TodoStatus
    /\ ("priority" \in body.fields_set /\ ~IsNone(body.priority))
          => Val(body.priority) \in TodoPriority

\* The TodoUpdate object of an accepted body: fields that are not set are
\* None, and model_fields_set remembers which ones were set.
TodoUpdate(body) ==
    [fields_set |-> body.fields_set,
     title |-> IF "title" \in body.fields_set THEN body.title ELSE None,
     description |-> IF "description" \in body.fields_set
                     THEN body.description ELSE None,
     status |-> IF "status" \in body.fields_set THEN body.status ELSE None,
     priority |-> IF "priority" \in body.fields_set
                  THEN body.priority ELSE None]

\* updates.model_dump(), which also holds the fields that were not set
model_dump_all(updates) == UpdateFields

\* updates.model_dump(exclude_unset=True), as the set of its keys; the value
\* of key f is updates[f].
model_dump_exclude_unset(updates) == updates.fields_set

----------------------------------------------------------------------------
(* src/todo_service.py: the store *)

Keys(d) == {d[i].key : i \in 1..Len(d)}

IndexOf(d, k) == CHOOSE i \in 1..Len(d) : d[i].key = k

\* self._todos.get(todo_id)
DictGet(d, k) == IF k \in Keys(d) THEN Some(d[IndexOf(d, k)].todo) ELSE None

\* self._todos[k] = v: a new key goes to the end, a known key keeps its place
\* (also used for a todo mutated in place, whose entry stays where it is)
DictSet(d, k, v) ==
    IF k \in Keys(d)
    THEN [d EXCEPT ![IndexOf(d, k)] = [key |-> k, todo |-> v]]
    ELSE Append(d, [key |-> k, todo |-> v])

\* del self._todos[k]
DictDel(d, k) == SelectSeq(d, LAMBDA e : e.key # k)

\* list(self._todos.values())
Values(d) == [i \in 1..Len(d) |-> d[i].todo]

\* What a call of the service yields: the store and the counter it leaves,
\* the value it returns, and the exception it raises ("" when it returns).
Outcome(t, n, r, e) == [todos |-> t, next_id |-> n, ret |-> r, exc |-> e]

\* create_todo that gives every todo the priority "medium"
create_todo_default_priority(todo_data, now) ==
    LET todo == [id |-> next_id,
                 title |-> Some(todo_data.title),
                 description |-> todo_data.description,
                 status |-> Some("pending"),
                 priority |-> Some("medium"),
                 created_at |-> now,
                 updated_at |-> now]
    IN Outcome(DictSet(todos, next_id, todo), next_id + 1, todo, "")

\* create_todo with the id taken from the size of the store
create_todo_len_id(todo_data, now) ==
    LET new_id == Len(todos) + 1
        todo == [id |-> new_id,
                 title |-> Some(todo_data.title),
                 description |-> todo_data.description,
                 status |-> Some("pending"),
                 priority |-> Some(todo_data.priority),
                 created_at |-> now,
                 updated_at |-> now]
    IN Outcome(DictSet(todos, new_id, todo), next_id + 1, todo, "")

create_todo(todo_data, now) ==
    LET todo == [id |-> next_id,
                 title |-> Some(todo_data.title),
                 description |-> todo_data.description,
                 status |-> Some("pending"),
                 priority |-> Some(todo_data.priority),
                 created_at |-> now,
                 updated_at |-> now]
    IN Outcome(DictSet(todos, next_id, todo), next_id + 1, todo, "")

get_todo(todo_id) == DictGet(todos, todo_id)

\* for field, value in update_data.items(): setattr(todo, field, value)
SetAttrs(todo, updates, update_data) ==
    [todo EXCEPT
        !.title = IF "title" \in update_data THEN updates.title ELSE @,
        !.description = IF "description" \in update_data
                        THEN updates.description ELSE @,
        !.status = IF "status" \in update_data THEN updates.status ELSE @,
        !.priority = IF "priority" \in update_data
                     THEN updates.priority ELSE @]

\* update_todo that returns early when the patch sets nothing
update_todo_skip_empty(todo_id, updates, now) ==
    LET got == DictGet(todos, todo_id) IN
    IF IsNone(got)
    THEN Outcome(todos, next_id, None, "")
    ELSE LET update_data == model_dump_exclude_unset(updates)
             todo == IF update_data = {} THEN Val(got)
                     ELSE [SetAttrs(Val(got), updates, update_data)
                              EXCEPT !.updated_at = now]
         IN Outcome(DictSet(todos, todo_id, todo), next_id, Some(todo), "")

\* update_todo that writes the time of the call to created_at as well
update_todo_restamps(todo_id, updates, now) ==
    LET got == DictGet(todos, todo_id) IN
    IF IsNone(got)
    THEN Outcome(todos, next_id, None, "")
    ELSE LET update_data == model_dump_exclude_unset(updates)
             todo == [SetAttrs(Val(got), updates, update_data)
                         EXCEPT !.updated_at = now, !.created_at = now]
         IN Outcome(DictSet(todos, todo_id, todo), next_id, Some(todo), "")

update_todo(todo_id, updates, now) ==
    LET got == DictGet(todos, todo_id) IN
    IF IsNone(got)
    THEN Outcome(todos, next_id, None, "")
    ELSE LET update_data == model_dump_exclude_unset(updates)
             todo == [SetAttrs(Val(got), updates, update_data)
                         EXCEPT !.updated_at = now]
         IN Outcome(DictSet(todos, todo_id, todo), next_id, Some(todo), "")

\* delete_todo that reports success and leaves the todo in the store
delete_todo_keep(todo_id) ==
    IF todo_id \in Keys(todos)
    THEN Outcome(todos, next_id, TRUE, "")
    ELSE Outcome(todos, next_id, FALSE, "")

\* delete_todo that reports success whether or not the id is stored
delete_todo_always_true(todo_id) ==
    Outcome(DictDel(todos, todo_id), next_id, TRUE, "")

delete_todo(todo_id) ==
    IF todo_id \in Keys(todos)
    THEN Outcome(DictDel(todos, todo_id), next_id, TRUE, "")
    ELSE Outcome(todos, next_id, FALSE, "")

\* mark_completed that leaves updated_at alone
mark_completed_no_stamp(todo_id, now) ==
    LET got == DictGet(todos, todo_id) IN
    IF IsNone(got)
    THEN Outcome(todos, next_id, None, "")
    ELSE LET todo == [Val(got) EXCEPT !.status = Some("completed")]
         IN Outcome(DictSet(todos, todo_id, todo), next_id, Some(todo), "")

\* mark_completed that writes the time of the call to created_at
mark_completed_stamps_created(todo_id, now) ==
    LET got == DictGet(todos, todo_id) IN
    IF IsNone(got)
    THEN Outcome(todos, next_id, None, "")
    ELSE LET todo == [Val(got) EXCEPT !.status = Some("completed"),
                                      !.created_at = now]
         IN Outcome(DictSet(todos, todo_id, todo), next_id, Some(todo), "")

mark_completed(todo_id, now) ==
    LET got == DictGet(todos, todo_id) IN
    IF IsNone(got)
    THEN Outcome(todos, next_id, None, "")
    ELSE LET todo == [Val(got) EXCEPT !.status = Some("completed"),
                                      !.updated_at = now]
         IN Outcome(DictSet(todos, todo_id, todo), next_id, Some(todo), "")

\* completed_ids with every todo that is no longer pending
not_pending_ids ==
    LET hits == SelectSeq(todos, LAMBDA e : e.todo.status # Some("pending"))
    IN [i \in 1..Len(hits) |-> hits[i].key]

\* [todo_id for todo_id, todo in self._todos.items()
\*     if todo.status == "completed"]
completed_ids ==
    LET hits == SelectSeq(todos, LAMBDA e : e.todo.status = Some("completed"))
    IN [i \in 1..Len(hits) |-> hits[i].key]

RECURSIVE DelAll(_, _)
DelAll(d, ids) ==
    IF ids = <<>> THEN d ELSE DelAll(DictDel(d, Head(ids)), Tail(ids))

\* clear_completed that winds the counter back to one past the todos left
clear_completed_rewinds ==
    LET left == DelAll(todos, completed_ids)
    IN Outcome(left, Len(left) + 1, Len(completed_ids), "")

clear_completed ==
    Outcome(DelAll(todos, completed_ids), next_id, Len(completed_ids), "")

\* counts[k] += 1 for every k of keys, in order; None when a k is no key of
\* counts (KeyError)
RECURSIVE Tally(_, _)
Tally(counts, keys) ==
    IF keys = <<>> THEN Some(counts)
    ELSE IF IsNone(Head(keys)) \/ Val(Head(keys)) \notin DOMAIN counts
         THEN None
         ELSE Tally([counts EXCEPT ![Val(Head(keys))] = @ + 1], Tail(keys))

ZeroStatus == [s \in TodoStatus |-> 0]
ZeroPriority == [p \in TodoPriority |-> 0]

Stats(t, s, p) == [total |-> t, by_status |-> s, by_priority |-> p]

get_stats ==
    LET all == Values(todos)
        total == Len(all)
        status_counts == Tally(ZeroStatus, [i \in 1..total |-> all[i].status])
        priority_counts ==
            Tally(ZeroPriority, [i \in 1..total |-> all[i].priority])
    IN IF total = 0
       THEN Outcome(todos, next_id, Stats(0, ZeroStatus, ZeroPriority), "")
       ELSE IF IsNone(status_counts) \/ IsNone(priority_counts)
            THEN Outcome(todos, next_id, None, "KeyError")
            ELSE Outcome(todos, next_id,
                         Stats(total, Val(status_counts), Val(priority_counts)),
                         "")

\* str.lower() on the letters the model uses
UpperCase == <<"A", "B", "C", "D">>
LowerCase == <<"a", "b", "c", "d">>
LowerChar(c) ==
    IF \E i \in 1..Len(UpperCase) : UpperCase[i] = c
    THEN LowerCase[CHOOSE i \in 1..Len(UpperCase) : UpperCase[i] = c]
    ELSE c
Lower(s) == [i \in 1..Len(s) |-> LowerChar(s[i])]

\* sub in s
Contains(sub, s) ==
    \E i \in 0..(Len(s) - Len(sub)) : SubSeq(s, i + 1, i + Len(sub)) = sub

\* the condition of the search comprehension for one todo; evaluating it
\* raises AttributeError when todo.title is None
SearchHit(search_lower, todo) ==
    \/ Contains(search_lower, Lower(Val(todo.title)))
    \/ /\ ~IsNone(todo.description)
       /\ Val(todo.description) # <<>>
       /\ Contains(search_lower, Lower(Val(todo.description)))

\* InsertDesc that puts x in front of the elements with the same created_at
InsertDesc_before_ties(sorted, x) ==
    LET n == Cardinality({i \in 1..Len(sorted) :
                             sorted[i].created_at > x.created_at})
    IN SubSeq(sorted, 1, n) \o <<x>> \o SubSeq(sorted, n + 1, Len(sorted))

\* x goes behind every element whose created_at is not smaller
InsertDesc(sorted, x) ==
    LET n == Cardinality({i \in 1..Len(sorted) :
                             sorted[i].created_at >= x.created_at})
    IN SubSeq(sorted, 1, n) \o <<x>> \o SubSeq(sorted, n + 1, Len(sorted))

\* todos.sort(key=lambda x: x.created_at, reverse=True): a stable sort, so
\* elements with equal keys keep the order they had
RECURSIVE SortCreatedDesc(_)
SortCreatedDesc(s) ==
    IF s = <<>> THEN <<>>
    ELSE InsertDesc(SortCreatedDesc(SubSeq(s, 1, Len(s) - 1)), s[Len(s)])

\* list_todos that sorts the store itself and returns its values
list_todos_sorts_store(status, priority, search) ==
    LET keyed == [i \in 1..Len(todos) |->
                     [key |-> todos[i].key, todo |-> todos[i].todo,
                      created_at |-> todos[i].todo.created_at]]
        sorted == SortCreatedDesc(keyed)
        store == [i \in 1..Len(sorted) |->
                     [key |-> sorted[i].key, todo |-> sorted[i].todo]]
    IN Outcome(store, next_id, Values(store), "")

\* status, priority and search are Optional; `if status:` takes None and the
\* empty string as no filter
list_todos(status, priority, search) ==
    LET all == Values(todos)
        by_status ==
            IF ~IsNone(status) /\ Val(status) # ""
            THEN SelectSeq(all, LAMBDA t : t.status = status) ELSE all
        by_priority ==
            IF ~IsNone(priority) /\ Val(priority) # ""
            THEN SelectSeq(by_status, LAMBDA t : t.priority = priority)
            ELSE by_status
        searching == ~IsNone(search) /\ Val(search) # <<>>
    IN IF searching /\ \E i \in 1..Len(by_priority) : IsNone(by_priority[i].title)
       THEN Outcome(todos, next_id, None, "AttributeError")
       ELSE LET found ==
                    IF searching
                    THEN SelectSeq(by_priority,
                             LAMBDA t : SearchHit(Lower(Val(search)), t))
                    ELSE by_priority
            IN Outcome(todos, next_id, SortCreatedDesc(found), "")

----------------------------------------------------------------------------
(* The requests the model sends *)

\* A JSON body: fields_set holds its keys, and a key's value is None for
\* null.
LongTitle == [i \in 1..(TitleMaxLength + 1) |-> "x"]

Body(fields_set, title, description, status, priority) ==
    [fields_set |-> fields_set, title |-> title, description |-> description,
     status |-> status, priority |-> priority]

\* POST /todos bodies: the two bodies of the repository's tests (title only;
\* title, description and priority), then bodies the schema rejects
CreateBodies ==
    {Body({"title"}, Some(<<"A">>), None, None, None),
     Body({"title", "description", "priority"},
          Some(<<"A">>), Some(<<"d">>), None, Some("high")),
     Body({}, None, None, None, None),
     Body({"title"}, Some(<<>>), None, None, None),
     Body({"title"}, Some(LongTitle), None, None, None),
     Body({"title"}, None, None, None, None),
     Body({"title", "priority"}, Some(<<"A">>), None, None, Some("urgent"))}

\* PUT /todos/{id} bodies: the empty patch, patches of one field (a value or
\* null), a patch of three fields, then bodies the schema rejects
UpdateBodies ==
    {Body({}, None, None, None, None),
     Body({"title"}, Some(<<"b">>), None, None, None),
     Body({"title"}, None, None, None, None),
     Body({"description"}, None, None, None, None),
     Body({"status"}, None, None, Some("in_progress"), None),
     Body({"status"}, None, None, None, None),
     Body({"priority"}, None, None, None, Some("low")),
     Body({"priority"}, None, None, None, None),
     Body({"title", "description", "status"},
          Some(<<"b">>), Some(<<"d">>), Some("completed"), None),
     Body({"title"}, Some(<<>>), None, None, None),
     Body({"status"}, None, None, Some("done"), None)}

\* the ids a request may name: every id a create can return, and one more
TodoIds == 1..(MaxCreates + 1)

StatusFilters == {None, Some("pending"), Some("completed")}
PriorityFilters == {None, Some("high")}
Searches == {None, Some(<<"a">>)}

----------------------------------------------------------------------------
(* src/app.py: one action per endpoint *)

\* id is 0 in the response of an endpoint whose path names no todo
Response(op, id, code, ret, fields_set) ==
    [op |-> op, id |-> id, code |-> code, ret |-> ret,
     fields_set |-> fields_set]

Idle == Response("none", 0, 0, None, {})

\* what prev keeps of a state
Snapshot == [todos |-> todos, next_id |-> next_id]

\* The handlers are plain `def` functions, which FastAPI runs in the threads
\* of a worker pool: several calls of the one todo_service can be in progress
\* at a time.
Threads == 1..MaxThreads

\* The frame of a thread: the call it is in (op), the line of
\* src/todo_service.py it executes next (pc, 0 outside a call), the arguments
\* and local variables of the call, what the last call returned (ret) or
\* raised (exc), and history about the last call:
\*   overwrote     the insert of create_todo replaced an entry of the store
\*   removed       the number of entries clear_completed deleted
\*   bad_removal   clear_completed deleted a todo that was not completed
\*   stored        the todo was in the store when the call returned it
\* A Todo object is named by its address in heap, 0 for no object.
NoCall ==
    [op |-> "none", pc |-> 0, calls |-> 0,
     todo_id |-> 0, updates |-> TodoUpdate(Body({}, None, None, None, None)),
     todo |-> 0, completed_ids |-> <<>>, size |-> 0, i |-> 0,
     ret |-> None, exc |-> "",
     overwrote |-> FALSE, removed |-> 0, bad_removal |-> FALSE,
     stored |-> FALSE]

Init ==
    /\ todos = <<>>
    /\ next_id = 1
    /\ clock = 0
    /\ resp = Idle
    /\ created = <<>>
    /\ deleted = {}
    /\ n_updates = 0
    /\ prev = Snapshot
    /\ heap = <<>>
    /\ threads = [t \in Threads |-> NoCall]

\* POST /todos, in a run that accepts at most n create requests
PostTodoUpTo(n) ==
    \E body \in CreateBodies :
        IF ~TodoCreateValid(body)
        THEN /\ prev' = Snapshot
             /\ UNCHANGED <<heap, threads>>
             /\ resp' = Response("create", 0, 422, None, {})
             /\ UNCHANGED <<todos, next_id, clock, created, deleted, n_updates>>
        ELSE /\ Len(created) < n
             /\ LET r == create_todo(TodoCreate(body), clock) IN
                /\ todos' = r.todos
                /\ next_id' = r.next_id
                /\ prev' = Snapshot
                /\ UNCHANGED <<heap, threads>>
                /\ resp' = Response("create", 0, 201, Some(r.ret), {})
                /\ created' = Append(created, r.ret.id)
             /\ UNCHANGED <<clock, deleted, n_updates>>

\* POST /todos
PostTodo == PostTodoUpTo(MaxCreates)

\* GET /todos
GetTodos ==
    \E status \in StatusFilters, priority \in PriorityFilters,
       search \in Searches :
        LET r == list_todos(status, priority, search) IN
        /\ prev' = Snapshot
        /\ UNCHANGED <<heap, threads>>
        /\ resp' = IF r.exc # ""
                   THEN Response("list", 0, 500, None, {})
                   ELSE Response("list", 0, 200, Some(r.ret), {})
        /\ todos' = r.todos
        /\ next_id' = r.next_id
        /\ UNCHANGED <<clock, created, deleted, n_updates>>

\* DELETE /todos/completed
DeleteCompleted ==
    LET r == clear_completed IN
    /\ todos' = r.todos
    /\ next_id' = r.next_id
    /\ prev' = Snapshot
    /\ UNCHANGED <<heap, threads>>
    /\ resp' = Response("clear", 0, 200, Some(r.ret), {})
    /\ UNCHANGED <<clock, created, deleted, n_updates>>

\* GET /todos/{todo_id}
GetTodo ==
    \E todo_id \in TodoIds :
        LET todo == get_todo(todo_id) IN
        /\ prev' = Snapshot
        /\ UNCHANGED <<heap, threads>>
        /\ resp' = Response("get", todo_id,
                            IF IsNone(todo) THEN 404 ELSE 200, todo, {})
        /\ UNCHANGED <<todos, next_id, clock, created, deleted, n_updates>>

\* PUT /todos/{todo_id}
PutTodo ==
    \E todo_id \in TodoIds, body \in UpdateBodies :
        IF ~TodoUpdateValid(body)
        THEN /\ prev' = Snapshot
             /\ UNCHANGED <<heap, threads>>
             /\ resp' = Response("update", todo_id, 422, None, {})
             /\ UNCHANGED <<todos, next_id, clock, created, deleted, n_updates>>
        ELSE LET r == update_todo(todo_id, TodoUpdate(body), clock) IN
             /\ IsNone(r.ret) \/ n_updates < MaxUpdates
             /\ todos' = r.todos
             /\ next_id' = r.next_id
             /\ prev' = Snapshot
             /\ UNCHANGED <<heap, threads>>
             /\ resp' = Response("update", todo_id,
                                 IF IsNone(r.ret) THEN 404 ELSE 200, r.ret,
                                 body.fields_set)
             /\ n_updates' = IF IsNone(r.ret) THEN n_updates ELSE n_updates + 1
             /\ UNCHANGED <<clock, created, deleted>>

\* DELETE /todos/{todo_id}
DeleteTodo ==
    \E todo_id \in TodoIds :
        LET r == delete_todo(todo_id) IN
        /\ todos' = r.todos
        /\ next_id' = r.next_id
        /\ prev' = Snapshot
        /\ UNCHANGED <<heap, threads>>
        /\ resp' = Response("delete", todo_id,
                            IF r.ret THEN 204 ELSE 404, Some(r.ret), {})
        /\ deleted' = IF r.ret THEN deleted \cup {todo_id} ELSE deleted
        /\ UNCHANGED <<clock, created, n_updates>>

\* PATCH /todos/{todo_id}/complete
PatchComplete ==
    \E todo_id \in TodoIds :
        LET r == mark_completed(todo_id, clock) IN
        /\ todos' = r.todos
        /\ next_id' = r.next_id
        /\ prev' = Snapshot
        /\ UNCHANGED <<heap, threads>>
        /\ resp' = Response("complete", todo_id,
                            IF IsNone(r.ret) THEN 404 ELSE 200, r.ret, {})
        /\ UNCHANGED <<clock, created, deleted, n_updates>>

\* GET /stats
GetStats ==
    LET r == get_stats IN
    /\ prev' = Snapshot
    /\ UNCHANGED <<heap, threads>>
    /\ resp' = IF r.exc # ""
               THEN Response("stats", 0, 500, None, {})
               ELSE Response("stats", 0, 200, Some(r.ret), {})
    /\ todos' = r.todos
    /\ next_id' = r.next_id
    /\ UNCHANGED <<clock, created, deleted, n_updates>>

\* Time passes between two requests: datetime.now() returns a later value.
\* No request is handled in this step, so no response is left behind.
Tick ==
    /\ clock < MaxTime
    /\ clock' = clock + 1
    /\ prev' = Snapshot
    /\ UNCHANGED <<heap, threads>>
    /\ resp' = Idle
    /\ UNCHANGED <<todos, next_id, created, deleted, n_updates>>

Next ==
    \/ PostTodo
    \/ GetTodos
    \/ DeleteCompleted
    \/ GetTodo
    \/ PutTodo
    \/ DeleteTodo
    \/ PatchComplete
    \/ GetStats
    \/ Tick

Spec == Init /\ [][Next]_vars

\* Runs of create, complete, delete and list requests alone, with one more
\* create than Spec accepts: three todos, so that the one created between
\* two others can be deleted.
OrderNext ==
    \/ PostTodoUpTo(MaxCreates + 1)
    \/ GetTodos
    \/ DeleteTodo
    \/ PatchComplete
    \/ Tick

OrderSpec == Init /\ [][OrderNext]_vars

----------------------------------------------------------------------------
(* src/todo_service.py, statement by statement: the calls of several     *)
(* worker threads interleaved.  The service takes no lock, so a thread   *)
(* can be suspended between any two statements of a method.  Here todos  *)
(* maps a key to the address of a Todo object and heap holds the         *)
(* objects, because a thread keeps the object it looked up while another *)
(* thread removes it from the dict.                                      *)

\* the PUT patches and the ids of the interleaved calls
ConcUpdates ==
    {TodoUpdate(Body({"title"}, Some(<<"b">>), None, None, None)),
     TodoUpdate(Body({"status"}, None, None, Some("in_progress"), None))}
ConcIds == 1..MaxCreates

\* thread t is outside a call and may start one
Ready(t) == threads[t].pc = 0 /\ threads[t].calls < MaxCalls

\* the frame of thread t on entry to a method
Enter(t, op) == [NoCall EXCEPT !.op = op, !.calls = threads[t].calls + 1]

\* the frame after `return`, and after an exception left the method
Return(f, ret, stored) ==
    [NoCall EXCEPT !.op = f.op, !.calls = f.calls, !.ret = ret,
                   !.overwrote = f.overwrote, !.removed = f.removed,
                   !.bad_removal = f.bad_removal, !.stored = stored]
Raise(f, exc) ==
    [NoCall EXCEPT !.op = f.op, !.calls = f.calls, !.exc = exc,
                   !.overwrote = f.overwrote, !.removed = f.removed,
                   !.bad_removal = f.bad_removal]

\* the object at address a is a value of the dict d
InStore(d, a) == \E j \in 1..Len(d) : d[j].todo = a

\* create_todo, lines 14-24: now = datetime.now(); todo = Todo(id=self._next_id, ...)
CreateBuild(t) ==
    /\ Ready(t)
    /\ Len(heap) < MaxCreates
    /\ \E body \in CreateBodies :
          /\ TodoCreateValid(body)
          /\ heap' = Append(heap, create_todo(TodoCreate(body), clock).ret)
    /\ threads' = [threads EXCEPT ![t] =
                      [Enter(t, "create") EXCEPT !.pc = 26,
                                                 !.todo = Len(heap) + 1]]
    /\ UNCHANGED <<todos, next_id, clock, resp, created, deleted, n_updates,
                   prev>>

\* create_todo, line 26: self._todos[self._next_id] = todo
CreateInsert(t) ==
    LET f == threads[t] IN
    /\ f.pc = 26
    /\ todos' = DictSet(todos, next_id, f.todo)
    /\ threads' = [threads EXCEPT ![t] =
                      [f EXCEPT !.pc = 27,
                                !.overwrote = next_id \in Keys(todos)]]
    /\ UNCHANGED <<next_id, heap, clock, resp, created, deleted, n_updates,
                   prev>>

\* create_todo, lines 27-29: self._next_id += 1; return todo
CreateIncrement(t) ==
    LET f == threads[t] IN
    /\ f.pc = 27
    /\ next_id' = next_id + 1
    /\ created' = Append(created, heap[f.todo].id)
    /\ threads' = [threads EXCEPT ![t] =
                      Return(f, Some(f.todo), InStore(todos, f.todo))]
    /\ UNCHANGED <<todos, heap, clock, resp, deleted, n_updates, prev>>

\* update_todo, lines 68-73: todo = self._todos.get(todo_id); return None
\* without one
UpdateGet(t) ==
    /\ Ready(t)
    /\ \E todo_id \in ConcIds, updates \in ConcUpdates :
          LET got == DictGet(todos, todo_id) IN
          threads' = [threads EXCEPT ![t] =
                         IF IsNone(got)
                         THEN Return(Enter(t, "update"), None, FALSE)
                         ELSE [Enter(t, "update") EXCEPT
                                  !.pc = 75, !.todo_id = todo_id,
                                  !.updates = updates, !.todo = Val(got)]]
    /\ UNCHANGED <<todos, next_id, heap, clock, resp, created, deleted,
                   n_updates, prev>>

\* update_todo, lines 75-76: the setattr loop
UpdateSetAttrs(t) ==
    LET f == threads[t] IN
    /\ f.op = "update"
    /\ f.pc = 75
    /\ heap' = [heap EXCEPT ![f.todo] =
                   SetAttrs(@, f.updates, model_dump_exclude_unset(f.updates))]
    /\ threads' = [threads EXCEPT ![t] = [f EXCEPT !.pc = 79]]
    /\ UNCHANGED <<todos, next_id, clock, resp, created, deleted, n_updates,
                   prev>>

\* update_todo, lines 79-81: todo.updated_at = datetime.now(); return todo
UpdateStamp(t) ==
    LET f == threads[t] IN
    /\ f.op = "update"
    /\ f.pc = 79
    /\ heap' = [heap EXCEPT ![f.todo].updated_at = clock]
    /\ threads' = [threads EXCEPT ![t] =
                      Return(f, Some(f.todo), InStore(todos, f.todo))]
    /\ UNCHANGED <<todos, next_id, clock, resp, created, deleted, n_updates,
                   prev>>

\* delete_todo, lines 85 and 88: if todo_id in self._todos; return False
\* otherwise
DeleteTest(t) ==
    /\ Ready(t)
    /\ \E todo_id \in ConcIds :
          threads' = [threads EXCEPT ![t] =
                         IF todo_id \in Keys(todos)
                         THEN [Enter(t, "delete") EXCEPT
                                  !.pc = 86, !.todo_id = todo_id]
                         ELSE Return(Enter(t, "delete"), Some(FALSE), FALSE)]
    /\ UNCHANGED <<todos, next_id, heap, clock, resp, created, deleted,
                   n_updates, prev>>

\* delete_todo, lines 86-87: del self._todos[todo_id]; return True.  del
\* raises KeyError when the key is no longer there.
DeleteDel(t) ==
    LET f == threads[t] IN
    /\ f.op = "delete"
    /\ f.pc = 86
    /\ IF f.todo_id \in Keys(todos)
       THEN /\ todos' = DictDel(todos, f.todo_id)
            /\ deleted' = deleted \cup {f.todo_id}
            /\ threads' = [threads EXCEPT ![t] = Return(f, Some(TRUE), FALSE)]
       ELSE /\ threads' = [threads EXCEPT ![t] = Raise(f, "KeyError")]
            /\ UNCHANGED <<todos, deleted>>
    /\ UNCHANGED <<next_id, heap, clock, resp, created, n_updates, prev>>

\* mark_completed, lines 120-122: todo = self._todos.get(todo_id); return
\* None without one
CompleteGet(t) ==
    /\ Ready(t)
    /\ \E todo_id \in ConcIds :
          LET got == DictGet(todos, todo_id) IN
          threads' = [threads EXCEPT ![t] =
                         IF IsNone(got)
                         THEN Return(Enter(t, "complete"), None, FALSE)
                         ELSE [Enter(t, "complete") EXCEPT
                                  !.pc = 124, !.todo_id = todo_id,
                                  !.todo = Val(got)]]
    /\ UNCHANGED <<todos, next_id, heap, clock, resp, created, deleted,
                   n_updates, prev>>

\* mark_completed, line 124: todo.status = "completed"
CompleteStatus(t) ==
    LET f == threads[t] IN
    /\ f.pc = 124
    /\ heap' = [heap EXCEPT ![f.todo].status = Some("completed")]
    /\ threads' = [threads EXCEPT ![t] = [f EXCEPT !.pc = 125]]
    /\ UNCHANGED <<todos, next_id, clock, resp, created, deleted, n_updates,
                   prev>>

\* mark_completed, lines 125-127: todo.updated_at = datetime.now(); return
\* todo
CompleteStamp(t) ==
    LET f == threads[t] IN
    /\ f.pc = 125
    /\ heap' = [heap EXCEPT ![f.todo].updated_at = clock]
    /\ threads' = [threads EXCEPT ![t] =
                      Return(f, Some(f.todo), InStore(todos, f.todo))]
    /\ UNCHANGED <<todos, next_id, clock, resp, created, deleted, n_updates,
                   prev>>

\* clear_completed, lines 131-132: self._todos.items() starts the iteration
\* over the dict, which remembers the size of the dict
ClearIterate(t) ==
    /\ Ready(t)
    /\ threads' = [threads EXCEPT ![t] =
                      [Enter(t, "clear") EXCEPT !.pc = 132,
                                                !.size = Len(todos)]]
    /\ UNCHANGED <<todos, next_id, heap, clock, resp, created, deleted,
                   n_updates, prev>>

\* clear_completed, lines 131-134: the comprehension runs to its end.  The
\* iterator raises RuntimeError when the size of the dict is no longer the
\* one it started with; otherwise completed_ids holds the keys of the
\* completed todos.
ClearCollect(t) ==
    LET f == threads[t]
        hits == SelectSeq(todos,
                    LAMBDA e : heap[e.todo].status = Some("completed"))
    IN
    /\ f.pc = 132
    /\ threads' = [threads EXCEPT ![t] =
                      IF Len(todos) # f.size
                      THEN Raise(f, "RuntimeError")
                      ELSE [f EXCEPT
                               !.pc = 136, !.i = 1,
                               !.completed_ids =
                                   [j \in 1..Len(hits) |-> hits[j].key]]]
    /\ UNCHANGED <<todos, next_id, heap, clock, resp, created, deleted,
                   n_updates, prev>>

\* clear_completed, lines 136-137: one round of the loop,
\* del self._todos[todo_id], which raises KeyError when the key is no longer
\* there
ClearDel(t) ==
    LET f == threads[t] IN
    /\ f.pc = 136
    /\ f.i <= Len(f.completed_ids)
    /\ LET todo_id == f.completed_ids[f.i] IN
       IF todo_id \in Keys(todos)
       THEN /\ todos' = DictDel(todos, todo_id)
            /\ threads' = [threads EXCEPT ![t] =
                  [f EXCEPT
                     !.i = f.i + 1,
                     !.removed = f.removed + 1,
                     !.bad_removal =
                        \/ f.bad_removal
                        \/ heap[Val(DictGet(todos, todo_id))].status
                              # Some("completed")]]
       ELSE /\ threads' = [threads EXCEPT ![t] = Raise(f, "KeyError")]
            /\ UNCHANGED todos
    /\ UNCHANGED <<next_id, heap, clock, resp, created, deleted, n_updates,
                   prev>>

\* clear_completed, line 139: return len(completed_ids)
ClearReturn(t) ==
    LET f == threads[t] IN
    /\ f.pc = 136
    /\ f.i > Len(f.completed_ids)
    /\ threads' = [threads EXCEPT ![t] =
                      Return(f, Some(Len(f.completed_ids)), FALSE)]
    /\ UNCHANGED <<todos, next_id, heap, clock, resp, created, deleted,
                   n_updates, prev>>

ConcNext ==
    \E t \in Threads :
       \/ CreateBuild(t)
       \/ CreateInsert(t)
       \/ CreateIncrement(t)
       \/ UpdateGet(t)
       \/ UpdateSetAttrs(t)
       \/ UpdateStamp(t)
       \/ DeleteTest(t)
       \/ DeleteDel(t)
       \/ CompleteGet(t)
       \/ CompleteStatus(t)
       \/ CompleteStamp(t)
       \/ ClearIterate(t)
       \/ ClearCollect(t)
       \/ ClearDel(t)
       \/ ClearReturn(t)

ConcSpec == Init /\ [][ConcNext]_vars

----------------------------------------------------------------------------
(* Properties *)

Stored == Values(todos)

\* The last request was answered with `code` by the endpoint `op`.
Answered(op, code) == resp.op = op /\ resp.code = code

\* C1: the k-th create returns id k, whatever updates, deletes,
\* mark_completed and clear_completed calls came in between: ids start at 1,
\* go up by 1, and an id whose todo was removed is not handed out again.
C1_IdsSequential ==
    /\ \A k \in 1..Len(created) : created[k] = k
    /\ Answered("create", 201) => Val(resp.ret).id = Len(created)

\* A create has returned after the todo of an earlier create was removed.
C1_Witness ==
    /\ Answered("create", 201)
    /\ Len(created) >= 2
    /\ \E k \in 1..(Len(created) - 1) : created[k] \notin Keys(todos)

\* C2: every stored todo has a non-empty title (a string of length >= 1),
\* a rejected create (422) having stored nothing.
C2_TitleNonEmpty ==
    \A i \in 1..Len(Stored) :
        /\ ~IsNone(Stored[i].title)
        /\ Len(Val(Stored[i].title)) >= TitleMinLength

\* C3: in every reachable store, get_stats and list_todos with any filter
\* return without raising: every stored status is a TodoStatus, every
\* stored priority a TodoPriority, every stored title a string.
C3_NoFault ==
    /\ \A i \in 1..Len(Stored) :
          /\ ~IsNone(Stored[i].status) /\ Val(Stored[i].status) \in TodoStatus
          /\ ~IsNone(Stored[i].priority)
          /\ Val(Stored[i].priority) \in TodoPriority
          /\ ~IsNone(Stored[i].title)
    /\ get_stats.exc = ""
    /\ \A status \in StatusFilters, priority \in PriorityFilters,
          search \in Searches :
          list_todos(status, priority, search).exc = ""

\* The last step was a PUT that found its todo: the todo before and after.
Updated == Answered("update", 200)
Before == Val(DictGet(prev.todos, resp.id))
After == Val(DictGet(todos, resp.id))

\* The entries of the store other than the one of key k.
Others(d, k) == SelectSeq(d, LAMBDA e : e.key # k)

\* C4: an update of a stored todo leaves each of title, description, status
\* and priority that the patch does not set as it was before the call.
C4_UnsetFieldsKept ==
    Updated =>
        /\ "title" \notin resp.fields_set => After.title = Before.title
        /\ "description" \notin resp.fields_set
              => After.description = Before.description
        /\ "status" \notin resp.fields_set => After.status = Before.status
        /\ "priority" \notin resp.fields_set
              => After.priority = Before.priority

\* A patch of the title alone has changed the title of a todo that has a
\* description.
C4_Witness ==
    /\ Updated
    /\ resp.fields_set = {"title"}
    /\ Before.title = Some(<<"A">>)
    /\ After.title = Some(<<"b">>)
    /\ Before.description = Some(<<"d">>)

\* C5: an update with the empty patch returns the stored todo, sets its
\* updated_at to the current time and changes nothing else: not its id,
\* title, description, status, priority or created_at, and no other todo.
C5_EmptyPatchBumpsOnly ==
    (Updated /\ resp.fields_set = {}) =>
        /\ After = [Before EXCEPT !.updated_at = clock]
        /\ resp.ret = Some(After)
        /\ Keys(todos) = Keys(prev.todos)
        /\ Others(todos, resp.id) = Others(prev.todos, resp.id)
        /\ next_id = prev.next_id

\* The empty patch was applied to a todo last written at an earlier time.
C5_Witness ==
    /\ Updated
    /\ resp.fields_set = {}
    /\ Before.updated_at < clock
    /\ After.updated_at = clock

\* C6: clear_completed removes exactly the todos whose status is completed,
\* leaves the others as they were, returns how many it removed (0 when none
\* is completed), and returns 0 when called again at once.
C6_ClearRemovesCompleted ==
    resp.op = "clear" =>
        /\ todos = SelectSeq(prev.todos,
                       LAMBDA e : e.todo.status # Some("completed"))
        /\ Val(resp.ret) = Len(prev.todos) - Len(todos)
        /\ Val(resp.ret) =
              Cardinality({i \in 1..Len(prev.todos) :
                              prev.todos[i].todo.status = Some("completed")})
        /\ clear_completed.ret = 0
        /\ clear_completed.todos = todos

\* A clear removed a completed todo and left another todo in the store.
C6_Witness ==
    /\ resp.op = "clear"
    /\ Val(resp.ret) >= 1
    /\ todos # <<>>

RECURSIVE SumOver(_, _)
SumOver(f, S) ==
    IF S = {} THEN 0
    ELSE LET x == CHOOSE x \in S : TRUE IN f[x] + SumOver(f, S \ {x})

\* C7: in every reachable store, the empty one included, get_stats returns
\* a total equal to the sum of its by_status counts and to the sum of its
\* by_priority counts.
C7_TotalsAgree ==
    LET r == get_stats IN
    /\ r.exc = ""
    /\ r.ret.total = SumOver(r.ret.by_status, DOMAIN r.ret.by_status)
    /\ r.ret.total = SumOver(r.ret.by_priority, DOMAIN r.ret.by_priority)

\* C8: get_stats always returns the six keys pending, in_progress,
\* completed, low, medium and high, each with the number of stored todos of
\* that status or priority (0 when there is none); on the empty store the
\* total and the six counts are 0.
C8_ZeroFilled ==
    LET r == get_stats IN
    /\ r.exc = ""
    /\ r.ret.total = Len(Stored)
    /\ DOMAIN r.ret.by_status = TodoStatus
    /\ DOMAIN r.ret.by_priority = TodoPriority
    /\ \A s \in TodoStatus :
          r.ret.by_status[s] =
             Cardinality({i \in 1..Len(Stored) : Stored[i].status = Some(s)})
    /\ \A p \in TodoPriority :
          r.ret.by_priority[p] =
             Cardinality({i \in 1..Len(Stored) : Stored[i].priority = Some(p)})
    /\ todos = <<>> => r.ret = Stats(0, ZeroStatus, ZeroPriority)

\* C9: list_todos() returns the todo of a later create before the todo of
\* an earlier create (ids go up with every create, so the ids of the list go
\* down).
C9_NewestFirst ==
    LET l == list_todos(None, None, None).ret IN
    \A i, j \in 1..Len(l) : i < j => l[i].id > l[j].id

\* C10: once delete_todo(id) has returned True, get_todo(id) is None in
\* every later state; delete_todo(id) returns True exactly when id is a key
\* of the store, and then id is no key of the store it leaves.
C10_DeletedStaysAbsent ==
    /\ \A id \in deleted : IsNone(get_todo(id))
    /\ \A id \in TodoIds :
          /\ delete_todo(id).ret = (id \in Keys(todos))
          /\ id \notin Keys(delete_todo(id).todos)
    /\ resp.op = "delete" =>
          /\ Val(resp.ret) = (resp.code = 204)
          /\ Val(resp.ret) => resp.id \in deleted

\* A todo was created after delete_todo had returned True for another one.
C10_Witness ==
    /\ Answered("create", 201)
    /\ deleted # {}
    /\ \A id \in deleted : IsNone(get_todo(id))

\* PUT bodies the schema accepts
ValidUpdates == {TodoUpdate(body) : body \in {b \in UpdateBodies : TodoUpdateValid(b)}}

\* C11: get_todo, update_todo, delete_todo and mark_completed on an id that
\* is not in the store return None / False without raising and leave the
\* store (so every updated_at) and the id counter as they were; the
\* endpoints answer each of these outcomes with 404.
C11_NotFoundIsAValue ==
    /\ \A id \in TodoIds \ Keys(todos) :
          /\ IsNone(get_todo(id))
          /\ delete_todo(id) = Outcome(todos, next_id, FALSE, "")
          /\ mark_completed(id, clock) = Outcome(todos, next_id, None, "")
          /\ \A updates \in ValidUpdates :
                update_todo(id, updates, clock) =
                   Outcome(todos, next_id, None, "")
    /\ ( /\ resp.op \in {"get", "update", "delete", "complete"}
         /\ resp.code # 422
         /\ resp.id \notin Keys(prev.todos) ) =>
          /\ resp.code = 404
          /\ resp.ret = IF resp.op = "delete" THEN Some(FALSE) ELSE None
          /\ todos = prev.todos
          /\ next_id = prev.next_id

\* A PUT with an accepted body named an id that is not stored, while another
\* todo is: the answer is 404.
C11_Witness ==
    /\ Answered("update", 404)
    /\ resp.fields_set # {}
    /\ todos # <<>>
    /\ resp.id \notin Keys(todos)

\* C12: every stored todo has updated_at >= created_at (datetime.now() read
\* as a clock that never runs backwards).
C12_UpdatedNotBeforeCreated ==
    \A i \in 1..Len(Stored) : Stored[i].updated_at >= Stored[i].created_at

\* A stored todo was changed at a later clock reading than it was created at.
C12_Witness ==
    /\ resp.op \in {"update", "complete"}
    /\ resp.code = 200
    /\ After.updated_at > After.created_at

\* C13: after update_todo has changed a stored todo, the todo's updated_at
\* is strictly greater than it was before the call.
C13_UpdatedAtAdvances ==
    Updated => After.updated_at > Before.updated_at

\* C14: a stored todo keeps the id and the created_at it was created with:
\* every stored todo sits under its own id, one that was stored before the
\* last request has the created_at it had then, and one that was not has
\* just been returned by create_todo with the clock reading of that call.
C14_IdAndCreatedAtFixed ==
    \A i \in 1..Len(todos) :
       LET key == todos[i].key
           todo == todos[i].todo
       IN /\ todo.id = key
          /\ key \in Keys(prev.todos) =>
                /\ todo.id = Val(DictGet(prev.todos, key)).id
                /\ todo.created_at = Val(DictGet(prev.todos, key)).created_at
          /\ key \notin Keys(prev.todos) =>
                /\ Answered("create", 201)
                /\ resp.ret = Some(todo)
                /\ todo.created_at = clock

\* A PUT rewrote title, description and status of a todo at a later clock
\* reading than the one the todo was created at.
C14_Witness ==
    /\ Updated
    /\ resp.fields_set = {"title", "description", "status"}
    /\ Before.created_at < clock
    /\ After # Before

\* the elements of a sequence
Range(s) == {s[i] : i \in 1..Len(s)}

\* list_todos with the status filter alone, and with no filter
ListByStatus(X) == list_todos(Some(X), None, None)
ListAll == list_todos(None, None, None)

\* C15: list_todos(status=X) holds only todos whose status is X, all of them
\* in list_todos(), and the three lists by status together hold the same
\* todos as list_todos().
C15_StatusListsPartition ==
    /\ \A X \in TodoStatus :
          /\ \A t \in Range(ListByStatus(X).ret) : t.status = Some(X)
          /\ Range(ListByStatus(X).ret) \subseteq Range(ListAll.ret)
    /\ UNION {Range(ListByStatus(X).ret) : X \in TodoStatus}
          = Range(ListAll.ret)

\* the filter values the properties of list_todos range over
AnyStatus == {None} \cup {Some(X) : X \in TodoStatus}
AnyPriority == {None} \cup {Some(p) : p \in TodoPriority}
AnySearch == {None, Some(<<>>), Some(<<"a">>), Some(<<"A">>), Some(<<"b">>),
              Some(<<"d">>), Some(<<"D">>), Some(<<"a", "d">>)}

\* s, compared case-insensitively, is a substring of the text o, which may
\* be absent
InText(s, o) == ~IsNone(o) /\ Contains(Lower(s), Lower(Val(o)))

\* the stored todos that satisfy every given filter
Matching(status, priority, search) ==
    {t \in Range(Stored) :
        /\ ~IsNone(status) => t.status = status
        /\ ~IsNone(priority) => t.priority = priority
        /\ ~IsNone(search) =>
              InText(Val(search), t.title) \/ InText(Val(search), t.description)}

\* C16: list_todos(status, priority, search) returns, as a sequence, exactly
\* the stored todos that satisfy every filter that is given, and all of them
\* when none is; with nothing matching it returns the empty sequence.
C16_FiltersAreAnd ==
    \A status \in AnyStatus, priority \in AnyPriority, search \in AnySearch :
       LET r == list_todos(status, priority, search) IN
       /\ r.exc = ""
       /\ Range(r.ret) = Matching(status, priority, search)
       /\ Len(r.ret) = Cardinality(Matching(status, priority, search))

\* C17: list_todos(search=s) keeps a stored todo exactly when s, compared
\* case-insensitively, is a substring of its title or of its description; a
\* todo without description is kept exactly when its title matches.
C17_SearchTitleOrDescription ==
    \A search \in AnySearch \ {None} :
       LET r == list_todos(None, None, search)
           s == Val(search)
       IN /\ r.exc = ""
          /\ \A t \in Range(Stored) :
                /\ t \in Range(r.ret)
                      <=> (InText(s, t.title) \/ InText(s, t.description))
                /\ IsNone(t.description) =>
                      (t \in Range(r.ret) <=> InText(s, t.title))

\* the patch {"status": "completed"}
StatusCompleted == TodoUpdate(Body({"status"}, None, None, Some("completed"), None))

\* C18: from the same store and at the same clock reading, mark_completed(id)
\* and update_todo(id, {status: completed}) return the same todo (or None)
\* and leave the same store; a PATCH /complete that found its todo has
\* changed its status to completed and its updated_at to the time of the
\* call, and nothing else.
C18_CompleteIsStatusUpdate ==
    /\ \A id \in TodoIds :
          mark_completed(id, clock) = update_todo(id, StatusCompleted, clock)
    /\ Answered("complete", 200) =>
          /\ After = [Before EXCEPT !.status = Some("completed"),
                                    !.updated_at = clock]
          /\ resp.ret = Some(After)
          /\ Others(todos, resp.id) = Others(prev.todos, resp.id)
          /\ Keys(todos) = Keys(prev.todos)
          /\ next_id = prev.next_id

\* PATCH /complete found a todo that was not completed and was last written
\* at an earlier clock reading.
C18_Witness ==
    /\ Answered("complete", 200)
    /\ Before.status # Some("completed")
    /\ Before.updated_at < clock
    /\ Len(todos) > 1

\* POST bodies the schema accepts
ValidCreates == {body \in CreateBodies : TodoCreateValid(body)}

\* C19: create_todo returns a todo with status pending, the title and the
\* description of the body (None without one), the priority of the body or
\* medium without one, and created_at equal to updated_at, and stores that
\* todo under the returned id; after a POST answered 201, get_todo of the
\* returned id yields the returned todo, and the id was not stored before.
C19_CreateStoresWhatItReturns ==
    /\ \A body \in ValidCreates :
          LET r == create_todo(TodoCreate(body), clock) IN
          /\ r.exc = ""
          /\ r.ret.status = Some("pending")
          /\ r.ret.title = body.title
          /\ r.ret.description = IF "description" \in body.fields_set
                                 THEN body.description ELSE None
          /\ r.ret.priority = IF "priority" \in body.fields_set
                              THEN body.priority ELSE Some("medium")
          /\ r.ret.created_at = clock
          /\ r.ret.updated_at = r.ret.created_at
          /\ DictGet(r.todos, r.ret.id) = Some(r.ret)
          /\ Others(r.todos, r.ret.id) = todos
    /\ Answered("create", 201) =>
          /\ get_todo(Val(resp.ret).id) = resp.ret
          /\ Val(resp.ret).id \notin Keys(prev.todos)
          /\ Val(resp.ret).status = Some("pending")
          /\ Val(resp.ret).updated_at = Val(resp.ret).created_at
          /\ Others(todos, Val(resp.ret).id) = prev.todos

\* A POST with description and priority "high" was answered 201 while
\* another todo was stored.
C19_Witness ==
    /\ Answered("create", 201)
    /\ Val(resp.ret).priority = Some("high")
    /\ Val(resp.ret).description = Some(<<"d">>)
    /\ Len(todos) > 1
    /\ get_todo(Val(resp.ret).id) = resp.ret

\* C20: get_todo, list_todos and get_stats are pure reads: for every
\* argument and in every reachable state list_todos and get_stats leave the
\* store and the id counter as they are, whether they return or raise, and
\* after a GET of one todo, of the list or of the statistics the store and
\* the counter equal those before the request.
C20_ReadsArePure ==
    /\ \A status \in AnyStatus, priority \in AnyPriority, search \in AnySearch :
          /\ list_todos(status, priority, search).todos = todos
          /\ list_todos(status, priority, search).next_id = next_id
    /\ get_stats.todos = todos
    /\ get_stats.next_id = next_id
    /\ \A id \in TodoIds : get_todo(id) = DictGet(todos, id)
    /\ resp.op \in {"get", "list", "stats"} =>
          /\ todos = prev.todos
          /\ next_id = prev.next_id

\* The list was read from a store of two todos created at different clock
\* readings, so that the order list_todos returns differs from the order of
\* the store.
C20_Witness ==
    /\ Answered("list", 200)
    /\ Len(todos) = 2
    /\ Len(Val(resp.ret)) = 2
    /\ Val(resp.ret) # Values(todos)
    /\ todos = prev.todos

\* C21: with create requests interleaved, no two creates return the same id
\* and the insert of a create never replaces an entry another create
\* stored.
C21_CreatesIndivisible ==
    /\ \A j, k \in 1..Len(created) : j # k => created[j] # created[k]
    /\ \A t \in Threads : ~threads[t].overwrote

\* C22: with clear_completed interleaved with other requests, the sweep
\* never raises, deletes only todos that are completed when it deletes them,
\* and returns the number of todos it deleted.
C22_ClearIndivisible ==
    \A t \in Threads :
       threads[t].op = "clear" =>
          /\ threads[t].exc = ""
          /\ ~threads[t].bad_removal
          /\ ~IsNone(threads[t].ret) =>
                threads[t].ret = Some(threads[t].removed)

\* C23: with update_todo or mark_completed interleaved with a removal of the
\* same id, a call that returns the todo returns one that is in the store,
\* under the id of the call, at the moment it returns.
C23_NoLostUpdate ==
    \A t \in Threads :
       ( /\ threads[t].op \in {"update", "complete"}
         /\ threads[t].pc = 0
         /\ ~IsNone(threads[t].ret) ) => threads[t].stored

\* todos with the same created_at stand in s in the order of their ids,
\* which is the order of their entries in the store
TiesInInsertionOrder(s) ==
    \A j, k \in 1..Len(s) :
       (j < k /\ s[j].created_at = s[k].created_at) =>
          /\ s[j].id < s[k].id
          /\ IndexOf(todos, s[j].id) < IndexOf(todos, s[k].id)

C25_CounterAheadOfIds ==
    /\ \A k \in Keys(todos) : k < next_id
    /\ next_id = 1 + Len(created)
    /\ next_id # prev.next_id =>
          Answered("create", 201) /\ next_id = prev.next_id + 1
    /\ \A j \in 1..Len(todos) : todos[j].todo.id = todos[j].key
    /\ \A j, k \in 1..Len(todos) :
          j # k => /\ todos[j].key # todos[k].key
                   /\ todos[j].todo.id # todos[k].todo.id

\* A clear removed todo 1 and left todo 2, which had been updated; the
\* counter stands at 3.
C25_Witness ==
    /\ Answered("clear", 200)
    /\ Val(resp.ret) = 1
    /\ Keys(todos) = {2}
    /\ n_updates > 0
    /\ next_id = 3

====
